---- MODULE Spec2Model ----
(***************************************************************************)
(* State-machine model of grishavanika/async_api_styles:                   *)
(*   - CURL_AsyncScheduler (tick / add_request / destructor),              *)
(*   - the callback API CURL_async_get and its completion lambda,          *)
(*   - the coroutine task Co_Task and the awaiter Co_CurlAsync.            *)
(* libcurl (the transfer engine) is an external library; it is modelled    *)
(* by the documented behaviour of the calls the sources make.              *)
(* The program is single-threaded: tick() and everything it calls run      *)
(* to completion; pc records the position inside that call chain so that   *)
(* the intermediate states of one tick() are visible.                      *)
(***************************************************************************)
EXTENDS Naturals, Sequences, FiniteSets

\* ------------------------------------------------------------------ bounds
MaxRequests == 2     \* CURL_async_get calls in one run
MaxChunks == 3       \* body chunks the servers send in one run
MaxTasks == 1        \* coroutine tasks created in one run
MaxAwaits == 2       \* co_await expressions in one task body
MaxObjs == 3         \* Co_Task objects constructed in one run

\* ------------------------------------------------------- program constants
HTTP_OK == 200       \* assert(response_code == 200L)

NULL == 0
\* the addresses curl_easy_init may return
Handles == 1..MaxRequests
Tasks == 1..MaxTasks
Urls == {"localhost:5001/file1.txt", "localhost:5001/file2.txt"}
\* response codes a finished transfer may carry
ResponseCodes == {HTTP_OK, 404}

\* The i-th body chunk the server sends for url, as the engine hands it to
\* the write callback: i bytes, none of them shared with another chunk or
\* another url.
UrlId(url) == IF url = "localhost:5001/file1.txt" THEN 1 ELSE 2
Chunk(url, i) == [j \in 1..i |-> 100 * UrlId(url) + 10 * i + j]

VARIABLES
    sched,              \* CURL_Async: "alive" | "destroyed"
    _multi_curl,        \* easy handles attached to the multi handle
    _curl_to_callback,  \* std::unordered_map<CURL*, Callback>
    xfer,               \* engine: per easy handle, its options and transfer
    msgs,               \* engine: handles with an unread CURLMSG_DONE
    state,              \* heap: the std::string* state of each transfer
    pc,                 \* position in the call chain of the single thread
    curl_easy,          \* tick(): local CURL* curl_easy
    callback,           \* tick(): local Callback callback (moved out of map)
    data,               \* completion lambda: local std::string data
    abort,              \* "none", or what terminated the process
    user,               \* main(): the State objects passed as user_data
    coro,               \* the coroutine frame of each Co_Task; history in it:
                        \* ran (resumptions that ran body code), destroyed_at
                        \* (where it stood when destroyed), forced (resume()
                        \* was called on it while it waited in a co_await)
    awaiter,            \* the Co_CurlAsync in each coroutine frame
    running,            \* the task whose body is executing, 0 when none
    resumer,            \* who called resume() on it: "main" | "tick"
    ub,                 \* "none", or the first undefined behaviour executed
    hist,               \* history: one record per CURL_async_get call
    call,               \* history: the arguments of the last direct call
                        \* of add_request
    objs,               \* the Co_Task objects: whether constructed or
                        \* destructed, and the handle in _coro
    out,                \* the lines coroutine bodies and awaiters printed
    ret,                \* history: the last value is_in_progress returned
    destroys            \* history: _coro.destroy() calls on each frame

vars == <<sched, _multi_curl, _curl_to_callback, xfer, msgs, state, pc,
          curl_easy, callback, data, abort, user, coro, awaiter, running,
          resumer, ub, hist, call, objs, out, ret, destroys>>

\* ----------------------------------------------------------------- values
NoUser == [kind |-> "none", id |-> 0, seq |-> 0]
\* a default-constructed (empty) std::function
EmptyFunction == [empty |-> TRUE, state |-> NULL, user_data |-> NoUser,
                  callback |-> "none", req |-> 0]
NoXfer == [live |-> FALSE, url |-> "", writedata |-> NULL, code |-> 0,
           phase |-> "free", req |-> 0]
NoString == [alive |-> FALSE, str |-> <<>>]
NoCoro == [st |-> "none", at |-> "none", n |-> 0, k |-> 0, ran |-> 0,
           destroyed_at |-> "none", forced |-> FALSE]
NoAwaiter == [alive |-> FALSE, _url |-> "", _coro |-> 0, _response |-> <<>>,
              seq |-> 0, req |-> 0]
Users == 1..MaxRequests
Objs == 1..MaxObjs
\* storage of a Co_Task before its constructor has run
NoObj == [st |-> "none", _coro |-> NULL]
NoRet == [obj |-> 0, value |-> FALSE]
EmptyMap == [h \in {} |-> EmptyFunction]

MapErase(m, h) == [x \in (DOMAIN m) \ {h} |-> m[x]]
MapPut(m, h, f) == [x \in (DOMAIN m) \cup {h} |-> IF x = h THEN f ELSE m[x]]

RECURSIVE Flatten(_)
Flatten(chunks) ==
    IF chunks = <<>> THEN <<>> ELSE Head(chunks) \o Flatten(Tail(chunks))

RECURSIVE SumOver(_, _)
SumOver(S, f) ==
    IF S = {} THEN 0
    ELSE LET x == CHOOSE y \in S : TRUE IN f[x] + SumOver(S \ {x}, f)

\* curl_easy handles that exist (curl_easy_init .. curl_easy_cleanup)
easy == {h \in Handles : xfer[h].live}

Init ==
    /\ sched = "alive"
    /\ _multi_curl = {}
    /\ _curl_to_callback = EmptyMap
    /\ xfer = [h \in Handles |-> NoXfer]
    /\ msgs = {}
    /\ state = [h \in Handles |-> NoString]
    /\ pc = "idle"
    /\ curl_easy = NULL
    /\ callback = EmptyFunction
    /\ data = <<>>
    /\ abort = "none"
    /\ user = [u \in Users |-> [response |-> <<>>, done |-> FALSE]]
    /\ coro = [t \in Tasks |-> NoCoro]
    /\ awaiter = [t \in Tasks |-> NoAwaiter]
    /\ running = 0
    /\ resumer = "main"
    /\ ub = "none"
    /\ hist = <<>>
    /\ call = [op |-> "none", curl_easy |-> NULL, on_finish |-> EmptyFunction]
    /\ objs = [o \in Objs |-> NoObj]
    /\ out = <<>>
    /\ ret = NoRet
    /\ destroys = [t \in Tasks |-> 0]

\* the driver (main) is between two calls, the process is running
Idle == pc = "idle" /\ abort = "none" /\ sched = "alive"

\* co_await expressions the existing task bodies have still to reach
Reserved == SumOver(Tasks, [t \in Tasks |-> coro[t].n - coro[t].k])

SchedVars == <<sched, _multi_curl, _curl_to_callback, msgs>>
TickLocals == <<curl_easy, callback, data>>
CoroVars == <<coro, awaiter, running, resumer, ub>>
TaskVars == <<objs, out, ret, destroys>>
\* every action but the direct call of add_request leaves call alone

\* ---------------------------------------------------- CURL_OnWriteCallback
\* a write callback that takes size for the number of bytes
CURL_OnWriteCallback_size(ptr, size, nmemb, response) ==
    [response |-> response \o SubSeq(ptr, 1, size), ret |-> size]

\* response.append(ptr, size * nmemb); return size * nmemb
CURL_OnWriteCallback(ptr, size, nmemb, response) ==
    [response |-> response \o SubSeq(ptr, 1, size * nmemb),
     ret |-> size * nmemb]

\* ----------------------------------------------------------- add_request
\* an add_request whose assertions are compiled out
add_request_assert_none(h, on_finish, live, multi, map) == "ok"

\* the first assertion of add_request that fails for these arguments, "ok"
\* when none does.  curl_multi_add_handle answers CURLM_ADDED_ALREADY for a
\* handle that is attached and CURLM_BAD_EASY_HANDLE for one that is not an
\* easy handle.
add_request_assert(h, on_finish, live, multi, map) ==
    IF on_finish.empty THEN "add_request: assert(on_finish)"
    ELSE IF h = NULL THEN "add_request: assert(curl_easy)"
    ELSE IF h \in DOMAIN map
        THEN "add_request: assert(!_curl_to_callback.contains(curl_easy))"
    ELSE IF h \in multi \/ h \notin live
        THEN "add_request: assert(status == CURLM_OK)"
    ELSE "ok"

\* add_request(curl_easy, on_finish), given the easy handles that exist
add_request(h, on_finish, live) ==
    LET a == add_request_assert(h, on_finish, live, _multi_curl,
                                _curl_to_callback)
    IN  IF a = "ok"
        THEN /\ _multi_curl' = _multi_curl \cup {h}
             /\ _curl_to_callback' = MapPut(_curl_to_callback, h, on_finish)
             /\ abort' = abort
        ELSE /\ abort' = a
             /\ UNCHANGED <<_multi_curl, _curl_to_callback>>

\* -------------------------------------------------------- CURL_async_get
\* a completion lambda that captures a pointer other than user_data
on_finish_lambda_stale(st, ud, cb, req) ==
    [empty |-> FALSE, state |-> st, user_data |-> [ud EXCEPT !.seq = 0],
     callback |-> cb, req |-> req]

\* the completion lambda [state, user_data, callback] built by CURL_async_get
on_finish_lambda(st, ud, cb, req) ==
    [empty |-> FALSE, state |-> st, user_data |-> ud, callback |-> cb,
     req |-> req]

\* curl_easy_init(): a handle at an address no existing handle has.  Handles
\* are interchangeable; the lowest free address is taken, so that the address
\* of a cleaned-up handle is reused at once.
curl_easy_init == CHOOSE h \in Handles \ easy : \A g \in Handles \ easy : h <= g

\* CURL_async_get(curl_async, url, user_data, callback), with the history so
\* far: sets xfer, state, _multi_curl, _curl_to_callback, abort, hist
CURL_async_get(url, ud, cb, hist0) ==
    LET h == curl_easy_init
        r == Len(hist0) + 1
    IN  /\ xfer' = [xfer EXCEPT ![h] =
                [live |-> TRUE, url |-> url, writedata |-> h, code |-> 0,
                 phase |-> "running", req |-> r]]
        /\ state' = [state EXCEPT ![h] = [alive |-> TRUE, str |-> <<>>]]
        /\ add_request(h, on_finish_lambda(h, ud, cb, r), easy \cup {h})
        /\ hist' = Append(hist0, [url |-> url, user_data |-> ud, handle |-> h,
                                  chunks |-> <<>>, consumed |-> TRUE,
                                  finished |-> FALSE,
                                  invoked |-> <<>>, completions |-> <<>>,
                                  yielded |-> <<>>])

\* main(): CURL_async_get(curl_async, url, &state, lambda)
main_async_get(url) ==
    /\ Idle
    /\ Len(hist) + Reserved < MaxRequests
    /\ CURL_async_get(url, [kind |-> "State", id |-> Len(hist) + 1, seq |-> 0],
                      "main_lambda", hist)
    /\ UNCHANGED <<sched, msgs, pc, user>>
    /\ UNCHANGED TickLocals
    /\ UNCHANGED CoroVars
    /\ call' = call
    /\ UNCHANGED TaskVars

\* a direct call of add_request with a handle the scheduler already knows,
\* a null handle or an empty callback
add_request_call(h, on_finish) ==
    /\ Idle
    /\ add_request(h, on_finish, easy)
    /\ call' = [op |-> "add_request", curl_easy |-> h, on_finish |-> on_finish]
    /\ UNCHANGED TaskVars
    /\ UNCHANGED <<sched, xfer, msgs, state, pc, user, hist>>
    /\ UNCHANGED TickLocals
    /\ UNCHANGED CoroVars

\* ------------------------------------------------------------------- tick
\* The engine hands chunks sent+1 .. sent+n of the transfer's body to its
\* write callback, in order; a callback that does not return the chunk's
\* size aborts the transfer (CURLE_WRITE_ERROR).
RECURSIVE Drain(_, _, _, _, _)
Drain(response, url, sent, n, given) ==
    IF n = 0 THEN [response |-> response, given |-> given, ok |-> TRUE]
    ELSE LET c == Chunk(url, sent + 1)
             w == CURL_OnWriteCallback(c, 1, Len(c), response)
         IN  IF w.ret = Len(c)
             THEN Drain(w.response, url, sent + 1, n - 1, Append(given, c))
             ELSE [response |-> w.response, given |-> Append(given, c),
                   ok |-> FALSE]

\* the transfers curl_multi_perform advances
Advancing == {h \in _multi_curl : xfer[h].phase = "running"}
\* body chunks the engine has handed to write callbacks so far
Received == SumOver(DOMAIN hist, [r \in DOMAIN hist |-> Len(hist[r].chunks)])
\* what one curl_multi_perform may do to a transfer: n further chunks arrive,
\* and the transfer ends with a response code (fin) or goes on (fin = 0)
Progress == [n : 0..(MaxChunks - Received), fin : {0} \cup ResponseCodes]

\* tick(): curl_multi_perform(_multi_curl, &running_handles)
tick_perform ==
    /\ Idle
    /\ \E plan \in [Advancing -> Progress] :
        /\ Received + SumOver(Advancing, [h \in Advancing |-> plan[h].n])
                <= MaxChunks
        /\ LET Performed(h) ==
                   Drain(state[xfer[h].writedata].str, xfer[h].url,
                         Len(hist[xfer[h].req].chunks), plan[h].n, <<>>)
               Finishing ==
                   {h \in Advancing : plan[h].fin # 0 \/ ~Performed(h).ok}
           IN
           /\ state' = [h \in Handles |->
                   IF h \in Advancing
                   THEN [state[h] EXCEPT !.str = Performed(h).response]
                   ELSE state[h]]
           /\ xfer' = [h \in Handles |->
                   IF h \in Finishing
                   THEN [xfer[h] EXCEPT !.phase = "done",
                                        !.code = plan[h].fin]
                   ELSE xfer[h]]
           /\ msgs' = msgs \cup Finishing
           /\ hist' = [r \in DOMAIN hist |->
                   IF \E h \in Advancing : xfer[h].req = r
                   THEN LET h == CHOOSE g \in Advancing : xfer[g].req = r
                        IN  [hist[r] EXCEPT
                               !.chunks = @ \o Performed(h).given,
                               !.consumed = @ /\ Performed(h).ok,
                               !.finished = @ \/ h \in Finishing]
                   ELSE hist[r]]
    /\ pc' = "loop"
    /\ UNCHANGED <<sched, _multi_curl, _curl_to_callback, abort, user>>
    /\ UNCHANGED TickLocals
    /\ UNCHANGED CoroVars
    /\ call' = call
    /\ UNCHANGED TaskVars

\* a tick() whose loop may end with messages still unread
tick_info_read_early ==
    /\ pc = "loop" /\ abort = "none"
    /\ \/ /\ pc' = "idle"
          /\ UNCHANGED <<msgs, curl_easy>>
       \/ \E h \in msgs :
          /\ msgs' = msgs \ {h}
          /\ curl_easy' = h
          /\ pc' = "msg"
    /\ UNCHANGED <<sched, _multi_curl, _curl_to_callback, xfer, state,
                   callback, data, abort, user, hist>>
    /\ UNCHANGED CoroVars
    /\ call' = call
    /\ UNCHANGED TaskVars

\* tick(): while (CURLMsg* m = curl_multi_info_read(...)); the engine queues
\* no message other than CURLMSG_DONE, and reports them in an order of its
\* own.  With no message left tick() returns.
tick_info_read ==
    /\ pc = "loop" /\ abort = "none"
    /\ \/ /\ msgs = {}
          /\ pc' = "idle"
          /\ UNCHANGED <<msgs, curl_easy>>
       \/ \E h \in msgs :
          /\ msgs' = msgs \ {h}
          /\ curl_easy' = h
          /\ pc' = "msg"
    /\ UNCHANGED <<sched, _multi_curl, _curl_to_callback, xfer, state,
                   callback, data, abort, user, hist>>
    /\ UNCHANGED CoroVars
    /\ call' = call
    /\ UNCHANGED TaskVars

\* a tick() that leaves the finished handle attached
curl_multi_remove_handle_skipped(multi, h) == multi

\* the multi handle after curl_multi_remove_handle(_multi_curl, h)
curl_multi_remove_handle(multi, h) == multi \ {h}

\* tick(): status = curl_multi_remove_handle(_multi_curl, curl_easy)
tick_remove_handle ==
    /\ pc = "msg" /\ abort = "none"
    /\ _multi_curl' = curl_multi_remove_handle(_multi_curl, curl_easy)
    /\ pc' = "find"
    /\ UNCHANGED <<sched, _curl_to_callback, xfer, msgs, state, curl_easy,
                   callback, data, abort, user, hist>>
    /\ UNCHANGED CoroVars
    /\ call' = call
    /\ UNCHANGED TaskVars

\* a tick() that clears the map instead of erasing one entry
tick_erased_all(map, h) == EmptyMap
\* a tick() that calls the callback and leaves its entry in the map
tick_erased_none(map, h) == map

\* the map after tick() has taken the callback of h out of it
tick_erased(map, h) == MapErase(map, h)

\* a tick() that puts off the erase until the callback has returned
tick_erase_deferred ==
    /\ pc = "find" /\ abort = "none"
    /\ curl_easy \in DOMAIN _curl_to_callback
    /\ callback' = _curl_to_callback[curl_easy]
    /\ pc' = "callback"
    /\ UNCHANGED <<sched, _multi_curl, _curl_to_callback, xfer, msgs, state,
                   curl_easy, data, abort, user, hist>>
    /\ UNCHANGED CoroVars
    /\ call' = call
    /\ UNCHANGED TaskVars

\* tick(): it = find(curl_easy); assert(it != end); callback = move(it->second);
\* assert(callback); erase(it)
tick_erase ==
    /\ pc = "find" /\ abort = "none"
    /\ IF curl_easy \notin DOMAIN _curl_to_callback
       THEN /\ abort' = "tick: assert(it != _curl_to_callback.end())"
            /\ UNCHANGED <<_curl_to_callback, callback, pc>>
       ELSE IF _curl_to_callback[curl_easy].empty
       THEN /\ abort' = "tick: assert(callback)"
            /\ UNCHANGED <<_curl_to_callback, callback, pc>>
       ELSE /\ callback' = _curl_to_callback[curl_easy]
            /\ _curl_to_callback' = tick_erased(_curl_to_callback, curl_easy)
            /\ pc' = "callback"
            /\ abort' = abort
    /\ UNCHANGED <<sched, _multi_curl, xfer, msgs, state, curl_easy, data,
                   user, hist>>
    /\ UNCHANGED CoroVars
    /\ call' = call
    /\ UNCHANGED TaskVars

\* a completion lambda that copies the buffer and releases nothing
on_finish_leaking ==
    /\ pc = "callback" /\ abort = "none"
    /\ hist' = [hist EXCEPT ![callback.req].invoked = Append(@, curl_easy)]
    /\ IF xfer[curl_easy].code # HTTP_OK
       THEN /\ abort' = "on_finish: assert(response_code == 200L)"
            /\ UNCHANGED <<data, pc>>
       ELSE /\ data' = state[callback.state].str
            /\ pc' = "on_complete"
            /\ abort' = abort
    /\ UNCHANGED <<xfer, state>>
    /\ UNCHANGED <<sched, _multi_curl, _curl_to_callback, msgs, curl_easy,
                   callback, user>>
    /\ UNCHANGED CoroVars
    /\ call' = call
    /\ UNCHANGED TaskVars

\* a completion lambda that does not look at the response code
on_finish_unchecked ==
    /\ pc = "callback" /\ abort = "none"
    /\ hist' = [hist EXCEPT ![callback.req].invoked = Append(@, curl_easy)]
    /\ xfer' = [xfer EXCEPT ![curl_easy] = NoXfer]
    /\ data' = state[callback.state].str
    /\ state' = [state EXCEPT ![callback.state] = NoString]
    /\ pc' = "on_complete"
    /\ abort' = abort
    /\ UNCHANGED <<sched, _multi_curl, _curl_to_callback, msgs, curl_easy,
                   callback, user>>
    /\ UNCHANGED CoroVars
    /\ call' = call
    /\ UNCHANGED TaskVars

\* tick(): callback(curl_easy), which runs the completion lambda of
\* CURL_async_get up to its call of the user's callback:
\* curl_easy_getinfo(CURLINFO_RESPONSE_CODE); assert(response_code == 200L);
\* curl_easy_cleanup(curl_easy); data = move(*state); delete state
on_finish ==
    /\ pc = "callback" /\ abort = "none"
    /\ hist' = [hist EXCEPT ![callback.req].invoked = Append(@, curl_easy)]
    /\ IF xfer[curl_easy].code # HTTP_OK
       THEN /\ abort' = "on_finish: assert(response_code == 200L)"
            /\ UNCHANGED <<xfer, state, data, pc>>
       ELSE /\ xfer' = [xfer EXCEPT ![curl_easy] = NoXfer]
            /\ data' = state[callback.state].str
            /\ state' = [state EXCEPT ![callback.state] = NoString]
            /\ pc' = "on_complete"
            /\ abort' = abort
    /\ UNCHANGED <<sched, _multi_curl, _curl_to_callback, msgs, curl_easy,
                   callback, user>>
    /\ UNCHANGED CoroVars
    /\ call' = call
    /\ UNCHANGED TaskVars

\* the history once the user's callback has been called with these arguments
Completed(ud, response) ==
    [hist EXCEPT ![callback.req].completions =
        Append(@, [user_data |-> ud, response |-> response])]

\* the body of one iteration of tick()'s loop ends: its locals are gone
EndIteration ==
    /\ curl_easy' = NULL
    /\ callback' = EmptyFunction
    /\ data' = <<>>

\* main(): the lambda passed to CURL_async_get:
\* state.response = move(response); state.done = true
main_lambda ==
    /\ pc = "on_complete" /\ abort = "none"
    /\ callback.callback = "main_lambda"
    /\ user' = [user EXCEPT ![callback.user_data.id] =
                    [response |-> data, done |-> TRUE]]
    /\ hist' = Completed(callback.user_data, data)
    /\ pc' = "loop"
    /\ EndIteration
    /\ UNCHANGED <<sched, _multi_curl, _curl_to_callback, xfer, msgs, state,
                   abort>>
    /\ UNCHANGED CoroVars
    /\ call' = call
    /\ UNCHANGED TaskVars

\* ------------------------------------------------------ CURL_async_destroy
\* delete scheduler: curl_multi_cleanup answers CURLM_OK also when easy
\* handles are still attached (it detaches them and leaves them to the
\* application); the map and the lambdas in it are destroyed, not called.
CURL_async_destroy ==
    /\ Idle
    /\ sched' = "destroyed"
    /\ _multi_curl' = {}
    /\ msgs' = {}
    /\ _curl_to_callback' = EmptyMap
    /\ UNCHANGED <<xfer, state, pc, abort, user, hist>>
    /\ UNCHANGED TickLocals
    /\ UNCHANGED CoroVars
    /\ call' = call
    /\ UNCHANGED TaskVars

\* ------------------------------------------------------------------ Co_Task
\* Co_Task task = coro_main(curl_async): the frame is created and suspended
\* at initial_suspend (std::suspend_always).  The body is a sequence of n
\* co_await CURL_await_get(...) expressions followed by co_return; n = 0 is
\* coro_work, n = 1 is coro_main.
coro_main_call(t, n) ==
    /\ Idle
    /\ coro[t].st = "none"
    /\ \A s \in Tasks : s < t => coro[s].st # "none"
    /\ Len(hist) + Reserved + n <= MaxRequests
    /\ coro' = [coro EXCEPT ![t] = [st |-> "suspended", at |-> "initial",
                                    n |-> n, k |-> 0, ran |-> 0,
                                    destroyed_at |-> "none",
                                    forced |-> FALSE]]
    /\ UNCHANGED <<xfer, state, pc, abort, user, hist, awaiter, running,
                   resumer, ub>>
    /\ UNCHANGED SchedVars
    /\ UNCHANGED TickLocals
    /\ call' = call
    /\ UNCHANGED TaskVars

\* the frame of t has been destroyed (_coro.destroy())
Freed(t) == coro[t].destroyed_at # "none"

\* _coro.done(): the coroutine is suspended at its final suspend point
_coro_done(t) == coro[t].st = "done"

\* an is_in_progress() that lost its negation
is_in_progress_negated(t) == _coro_done(t)

\* Co_Task::is_in_progress(): return !_coro.done()
is_in_progress(t) == ~_coro_done(t)

\* std::coroutine_handle::resume() is defined for a coroutine that exists and
\* is suspended at a point other than the final one
Resumable(t) == coro[t].st = "suspended" /\ ~Freed(t)

\* a resume() without the assertion on done()
resume_assert_none(t) == "ok"

\* Co_Task::resume(): the assertion that fails, "ok" when none does
\* (assert(_coro) holds for a task that was not moved from)
resume_assert(t) ==
    IF _coro_done(t) THEN "Co_Task::resume: assert(!_coro.done())" ELSE "ok"

\* main(): task.resume()
Co_Task_resume(t) ==
    /\ Idle
    /\ coro[t].st # "none" /\ ~Freed(t)
    /\ IF resume_assert(t) # "ok"
       THEN /\ abort' = resume_assert(t)
            /\ UNCHANGED <<coro, running, resumer, pc, ub>>
       ELSE IF Resumable(t)
       THEN /\ coro' = [coro EXCEPT ![t].st = "running",
                                    ![t].forced = @ \/ coro[t].at = "await"]
            /\ running' = t
            /\ resumer' = "main"
            /\ pc' = "body"
            /\ UNCHANGED <<abort, ub>>
       ELSE \* resume() of a coroutine at its final suspend point: undefined
            /\ ub' = IF ub = "none"
                     THEN "Co_Task::resume: resume of a finished coroutine"
                     ELSE ub
            /\ \/ abort' = "crash"
               \/ abort' = abort
            /\ UNCHANGED <<coro, running, resumer, pc>>
    /\ UNCHANGED <<xfer, state, user, hist, awaiter>>
    /\ UNCHANGED SchedVars
    /\ UNCHANGED TickLocals
    /\ call' = call
    /\ UNCHANGED TaskVars

\* a destructor that also withdraws the transfers of the task's awaiter
Co_Task_destroy_withdrawing(t) ==
    /\ pc = "idle" /\ abort = "none"
    /\ coro[t].st # "none" /\ ~Freed(t)
    /\ coro' = [coro EXCEPT ![t].destroyed_at = coro[t].at]
    /\ destroys' = [destroys EXCEPT ![t] = @ + 1]
    /\ awaiter' = [awaiter EXCEPT ![t].alive = FALSE]
    /\ LET mine == {h \in DOMAIN _curl_to_callback :
                        /\ _curl_to_callback[h].user_data.kind = "Co_CurlAsync"
                        /\ _curl_to_callback[h].user_data.id = t}
       IN  /\ _curl_to_callback' =
                    [h \in (DOMAIN _curl_to_callback) \ mine |->
                        _curl_to_callback[h]]
           /\ _multi_curl' = _multi_curl \ mine
    /\ UNCHANGED <<sched, msgs>>
    /\ UNCHANGED <<xfer, state, pc, abort, user, hist, running, resumer, ub>>
    /\ UNCHANGED TickLocals
    /\ call' = call
    /\ UNCHANGED <<objs, out, ret>>

\* Co_Task::~Co_Task(): if (_coro) _coro.destroy().  The frame and the
\* awaiter inside it are freed; what they held stays in the freed memory.
\* The destructor needs no scheduler: in main() the task is destructed at
\* the closing brace, after CURL_async_destroy(curl_async).
Co_Task_destroy(t) ==
    /\ pc = "idle" /\ abort = "none"
    /\ coro[t].st # "none" /\ ~Freed(t)
    /\ coro' = [coro EXCEPT ![t].destroyed_at = coro[t].at]
    /\ destroys' = [destroys EXCEPT ![t] = @ + 1]
    /\ awaiter' = [awaiter EXCEPT ![t].alive = FALSE]
    /\ UNCHANGED <<xfer, state, pc, abort, user, hist, running, resumer, ub>>
    /\ UNCHANGED SchedVars
    /\ UNCHANGED TickLocals
    /\ call' = call
    /\ UNCHANGED <<objs, out, ret>>

\* --------------------------------------------------------------- Co_CurlAsync
\* coro_main(): co_await CURL_await_get(curl_async, "localhost:5001/file1.txt")
AwaitUrl == "localhost:5001/file1.txt"

\* an awaiter that reports ready
await_ready_true == TRUE

\* Co_CurlAsync::await_ready(): return false
await_ready == FALSE

\* an await_resume() that returns a fresh string
await_resume_empty(a) == <<>>

\* Co_CurlAsync::await_resume(): return move(_response)
await_resume(a) == a._response

\* The body of the running task goes on from the point where it was
\* suspended up to its next suspension:
\*   after an await: response = awaiter.await_resume(), the awaiter is gone;
\*   then either the next co_await CURL_await_get(curl_async, url):
\*     await_ready() is false, await_suspend(coro) stores coro and calls
\*     CURL_async_get(_curl_async, _url, this, lambda)
\*     (were await_ready() true, the body would go on without suspending);
\*   or co_return and final_suspend (std::suspend_always).
\* Control then returns to the caller of resume().
coro_body ==
    /\ pc = "body" /\ abort = "none"
    /\ LET t == running
           c == coro[t]
           a == awaiter[t]
           after_await == c.at = "await"
           hist1 == IF after_await
                    THEN [hist EXCEPT ![a.req].yielded =
                                Append(@, await_resume(a))]
                    ELSE hist
       IN
       /\ IF c.k < c.n /\ await_ready
          THEN /\ awaiter' = [awaiter EXCEPT ![t] = NoAwaiter]
               /\ coro' = [coro EXCEPT ![t].at = "ready", ![t].k = c.k + 1]
               /\ hist' = hist1
               /\ UNCHANGED <<xfer, state, _multi_curl, _curl_to_callback,
                              abort>>
          ELSE IF c.k < c.n
          THEN LET url == AwaitUrl IN
               /\ awaiter' = [awaiter EXCEPT ![t] =
                       [alive |-> ~Freed(t), _url |-> url, _coro |-> t,
                        _response |-> <<>>, seq |-> c.k + 1,
                        req |-> Len(hist) + 1]]
               /\ CURL_async_get(url, [kind |-> "Co_CurlAsync", id |-> t,
                                       seq |-> c.k + 1],
                                 "await_lambda", hist1)
               /\ coro' = [coro EXCEPT ![t].st = "suspended",
                                       ![t].at = "await",
                                       ![t].k = c.k + 1,
                                       ![t].ran = c.ran + 1]
          ELSE /\ awaiter' = [awaiter EXCEPT ![t] = NoAwaiter]
               /\ coro' = [coro EXCEPT ![t].st = "done", ![t].at = "final",
                                       ![t].ran = c.ran + 1]
               /\ hist' = hist1
               /\ UNCHANGED <<xfer, state, _multi_curl, _curl_to_callback,
                              abort>>
    /\ IF coro[running].k < coro[running].n /\ await_ready
       THEN UNCHANGED <<running, pc>> /\ UNCHANGED TickLocals
       ELSE /\ running' = 0
            /\ IF resumer = "tick"
               THEN pc' = "loop" /\ EndIteration
               ELSE pc' = "idle" /\ UNCHANGED TickLocals
    /\ UNCHANGED <<sched, msgs, user, resumer, ub>>
    /\ call' = call
    /\ UNCHANGED TaskVars

\* the awaiter that user_data points to is the one waiting in the frame
AwaiterValid(ud) ==
    awaiter[ud.id].alive /\ awaiter[ud.id].seq = ud.seq

\* a completion lambda that stores the response and resumes nothing
await_lambda_no_resume ==
    /\ pc = "on_complete" /\ abort = "none"
    /\ callback.callback = "await_lambda"
    /\ hist' = Completed(callback.user_data, data)
    /\ awaiter' = [awaiter EXCEPT ![callback.user_data.id]._response = data]
    /\ pc' = "loop"
    /\ EndIteration
    /\ UNCHANGED <<coro, running, resumer, abort, ub>>
    /\ UNCHANGED <<xfer, state, user>>
    /\ UNCHANGED SchedVars
    /\ call' = call
    /\ UNCHANGED TaskVars

\* Co_CurlAsync::await_suspend(): the lambda passed to CURL_async_get:
\* self = *static_cast<Co_CurlAsync*>(user_data);
\* self._response = move(response); self._coro.resume()
\* With the awaiter gone (its frame destroyed, or the body past this
\* co_await) the write and the resume are undefined: the process crashes, or
\* they act on what is at that address now: the write lands in the awaiter
\* that waits in the frame now (the frame reuses the storage) or in dead
\* storage that nothing reads again, and the resume() through the handle
\* copied from there either resumes the frame that is at that address now,
\* where it is suspended (the frame of this task, or the frame of another
\* task that got the memory), or returns with no body code run (a destroyed
\* frame is left on its destroy path, which resume() then runs again).  The
\* memory of a destroyed frame may hold the image of any suspension the
\* frame went through; resume() then goes on from that point.
AwaitOf(u, k) ==
    LET S == {r \in DOMAIN hist :
                /\ hist[r].user_data.kind = "Co_CurlAsync"
                /\ hist[r].user_data.id = u
                /\ hist[r].user_data.seq = k}
    IN  CHOOSE r \in S : \A q \in S : q <= r

await_lambda ==
    /\ pc = "on_complete" /\ abort = "none"
    /\ callback.callback = "await_lambda"
    /\ hist' = Completed(callback.user_data, data)
    /\ LET ud == callback.user_data
           t == ud.id
           resume_it(u, written) ==
               /\ awaiter' = IF written
                             THEN [awaiter EXCEPT ![u]._response = data]
                             ELSE awaiter
               /\ coro' = [coro EXCEPT ![u].st = "running"]
               /\ running' = u
               /\ resumer' = "tick"
               /\ pc' = "body"
               /\ UNCHANGED TickLocals
           resume_image(u, k, written) ==
               /\ awaiter' = [awaiter EXCEPT ![u] =
                       IF k = 0 THEN NoAwaiter
                       ELSE [alive |-> FALSE, _url |-> AwaitUrl, _coro |-> u,
                             _response |-> IF written THEN data ELSE <<>>,
                             seq |-> k, req |-> AwaitOf(u, k)]]
               /\ coro' = [coro EXCEPT
                             ![u].st = "running",
                             ![u].at = IF k = 0 THEN "initial" ELSE "await",
                             ![u].k = k]
               /\ running' = u
               /\ resumer' = "tick"
               /\ pc' = "body"
               /\ UNCHANGED TickLocals
       IN
       IF AwaiterValid(ud) /\ Resumable(t)
       THEN /\ resume_it(t, TRUE)
            /\ UNCHANGED <<abort, ub>>
       ELSE /\ ub' = IF ub = "none"
                     THEN "await_lambda: use of a destroyed Co_CurlAsync"
                     ELSE ub
            /\ \/ /\ abort' = "crash"
                  /\ UNCHANGED <<awaiter, coro, running, resumer, pc>>
                  /\ UNCHANGED TickLocals
               \/ /\ abort' = abort
                  /\ \E u \in Tasks, written \in BOOLEAN :
                        /\ coro[u].st = "suspended"
                        /\ resume_it(u, written)
               \/ /\ abort' = abort
                  /\ \E u \in Tasks, k \in 0..MaxAwaits,
                        written \in BOOLEAN :
                        /\ Freed(u) /\ k <= coro[u].k
                        /\ Len(hist) + Reserved + (coro[u].k - k)
                                <= MaxRequests
                        /\ resume_image(u, k, written)
               \/ /\ abort' = abort
                  /\ pc' = "loop"
                  /\ EndIteration
                  /\ UNCHANGED <<awaiter, coro, running, resumer>>
    /\ UNCHANGED <<xfer, state, user>>
    /\ UNCHANGED SchedVars
    /\ call' = call
    /\ UNCHANGED TaskVars

\* ------------------------------------------------------- Co_Task objects
\* Programs that own coroutines through Co_Task objects and need no
\* scheduler: coro_work of 0x_cpp_coro_task (n = 0: no co_await) and
\* coro_work of 0x_cpp_coro_basic_await (n = 1: one co_await of an awaiter
\* that resumes the coroutine inside await_suspend).

\* Co_Task(co_handle coro) : _coro{coro}
Co_Task_ctor(c) == [st |-> "alive", _coro |-> c]

\* a move constructor that copies the handle and leaves rhs as it was
Co_Task_move_copying(rhs) ==
    [self |-> [st |-> "alive", _coro |-> rhs._coro], rhs |-> rhs]

\* Co_Task(Co_Task&& rhs) : _coro{std::exchange(rhs._coro, {})}
Co_Task_move(rhs) ==
    [self |-> [st |-> "alive", _coro |-> rhs._coro],
     rhs |-> [rhs EXCEPT !._coro = NULL]]

\* the live Co_Task objects whose _coro is the frame t
Owners(t) == {o \in Objs : objs[o].st = "alive" /\ objs[o]._coro = t}

\* the lines frame t has printed
LinesOf(t) ==
    LET Mine(e) == e.t = t
        mine == SelectSeq(out, Mine)
    IN  [i \in 1..Len(mine) |-> mine[i].line]

println(t, line) == out' = Append(out, [t |-> t, line |-> line])

TaskRest == <<sched, _multi_curl, _curl_to_callback, xfer, msgs, state,
              curl_easy, callback, data, user, awaiter, hist, call>>

\* Co_Task coro = coro_work(): the frame is created and suspended at
\* initial_suspend; get_return_object() constructs the Co_Task.
coro_work_call(o, t, n) ==
    /\ Idle
    /\ objs[o].st = "none" /\ \A p \in Objs : p < o => objs[p].st # "none"
    /\ coro[t].st = "none" /\ \A u \in Tasks : u < t => coro[u].st # "none"
    /\ coro' = [coro EXCEPT ![t] = [st |-> "suspended", at |-> "initial",
                                    n |-> n, k |-> 0, ran |-> 0,
                                    destroyed_at |-> "none",
                                    forced |-> FALSE]]
    /\ objs' = [objs EXCEPT ![o] = Co_Task_ctor(t)]
    /\ UNCHANGED <<pc, abort, ub, running, resumer, out, ret, destroys>>
    /\ UNCHANGED TaskRest

\* Co_Task o{std::move(rhs)}
Co_Task_move_call(o, rhs) ==
    /\ Idle
    /\ objs[o].st = "none" /\ \A p \in Objs : p < o => objs[p].st # "none"
    /\ objs[rhs].st = "alive"
    /\ objs' = [objs EXCEPT ![o] = Co_Task_move(objs[rhs]).self,
                            ![rhs] = Co_Task_move(objs[rhs]).rhs]
    /\ UNCHANGED <<coro, pc, abort, ub, running, resumer, out, ret, destroys>>
    /\ UNCHANGED TaskRest

\* ~Co_Task(): if (_coro) _coro.destroy().  destroy() of a frame that was
\* destroyed before is undefined: a crash, nothing, or the destruction of
\* the frame that lives at that address now (the frame of another task).
Co_Task_dtor(o) ==
    /\ Idle
    /\ objs[o].st = "alive"
    /\ objs' = [objs EXCEPT ![o].st = "dead"]
    /\ LET t == objs[o]._coro IN
       IF t = NULL
       THEN UNCHANGED <<coro, destroys, ub, abort>>
       ELSE IF ~Freed(t)
       THEN /\ coro' = [coro EXCEPT ![t].destroyed_at = coro[t].at]
            /\ destroys' = [destroys EXCEPT ![t] = @ + 1]
            /\ UNCHANGED <<ub, abort>>
       ELSE /\ ub' = IF ub = "none"
                     THEN "~Co_Task: destroy of a destroyed coroutine"
                     ELSE ub
            /\ \/ /\ abort' = "crash"
                  /\ destroys' = [destroys EXCEPT ![t] = @ + 1]
                  /\ UNCHANGED coro
               \/ /\ abort' = abort
                  /\ destroys' = [destroys EXCEPT ![t] = @ + 1]
                  /\ UNCHANGED coro
               \/ /\ abort' = abort
                  /\ \E u \in Tasks :
                        /\ coro[u].st # "none" /\ ~Freed(u)
                        /\ coro' = [coro EXCEPT
                                      ![u].destroyed_at = coro[u].at]
                        /\ destroys' = [destroys EXCEPT ![u] = @ + 1]
    /\ UNCHANGED <<pc, running, resumer, out, ret>>
    /\ UNCHANGED TaskRest

\* Co_Task::resume() and is_in_progress(): assert(_coro) comes first
null_assert(obj, what) ==
    IF obj._coro = NULL THEN what ELSE "ok"

\* o.resume()
Co_Task_resume_call(o) ==
    /\ Idle
    /\ objs[o].st = "alive"
    /\ LET t == objs[o]._coro
           a == null_assert(objs[o], "Co_Task::resume: assert(_coro)")
       IN
       IF a # "ok"
       THEN /\ abort' = a
            /\ UNCHANGED <<coro, running, resumer, pc, ub>>
       ELSE IF Freed(t)
       THEN \* done() and resume() read the freed frame: a crash, the
            \* assertion on done(), the body of the frame that is at that
            \* address now going on (this frame or one that got the
            \* memory, whatever state the handle was left in), or a return
            \* with no body code run
            /\ ub' = IF ub = "none"
                     THEN "Co_Task::resume: use of a destroyed handle"
                     ELSE ub
            /\ \/ /\ abort' = "crash"
                  /\ UNCHANGED <<coro, running, resumer, pc>>
               \/ /\ abort' = "Co_Task::resume: assert(!_coro.done())"
                  /\ UNCHANGED <<coro, running, resumer, pc>>
               \/ /\ \E u \in Tasks :
                        /\ coro[u].st \in {"suspended", "done"}
                        /\ coro' = [coro EXCEPT ![u].st = "running"]
                        /\ running' = u
                  /\ resumer' = "main"
                  /\ pc' = "work"
                  /\ abort' = abort
               \/ /\ abort' = abort
                  /\ UNCHANGED <<coro, running, resumer, pc>>
       ELSE IF resume_assert(t) # "ok"
       THEN /\ abort' = resume_assert(t)
            /\ UNCHANGED <<coro, running, resumer, pc, ub>>
       ELSE /\ coro' = [coro EXCEPT ![t].st = "running"]
            /\ running' = t
            /\ resumer' = "main"
            /\ pc' = "work"
            /\ UNCHANGED <<abort, ub>>
    /\ UNCHANGED <<objs, out, ret, destroys>>
    /\ UNCHANGED TaskRest

\* o.is_in_progress()
Co_Task_is_in_progress_call(o) ==
    /\ Idle
    /\ objs[o].st = "alive"
    /\ LET t == objs[o]._coro
           a == null_assert(objs[o], "Co_Task::is_in_progress: assert(_coro)")
       IN
       IF a # "ok"
       THEN /\ abort' = a
            /\ UNCHANGED <<ret, ub>>
       ELSE IF Freed(t)
       THEN \* done() reads the freed frame: a crash, or either answer
            /\ ub' = IF ub = "none"
                     THEN "Co_Task::is_in_progress: use of a destroyed handle"
                     ELSE ub
            /\ \/ abort' = "crash" /\ UNCHANGED ret
               \/ /\ abort' = abort
                  /\ \E v \in BOOLEAN : ret' = [obj |-> o, value |-> v]
       ELSE /\ ret' = [obj |-> o, value |-> is_in_progress(t)]
            /\ UNCHANGED <<abort, ub>>
    /\ UNCHANGED <<coro, running, resumer, pc, objs, out, destroys>>
    /\ UNCHANGED TaskRest

\* coro_work(), from its start: 0x_cpp_coro_task prints and returns;
\* 0x_cpp_coro_basic_await prints and reaches co_await Co_CurlAsync{}:
\* await_ready() is false, the coroutine is suspended and await_suspend runs
coro_work_before ==
    /\ pc = "work" /\ abort = "none"
    /\ LET t == running IN
       IF coro[t].n = 0
       THEN /\ println(t, "inside coro_work")
            /\ coro' = [coro EXCEPT ![t].st = "done", ![t].at = "final",
                                    ![t].ran = @ + 1]
            /\ running' = 0
            /\ pc' = "idle"
       ELSE /\ println(t, "before co_await")
            /\ coro' = [coro EXCEPT ![t].st = "suspended", ![t].at = "await",
                                    ![t].k = @ + 1, ![t].ran = @ + 1]
            /\ running' = t
            /\ pc' = "await_suspend"
    /\ UNCHANGED <<abort, ub, resumer, objs, ret, destroys>>
    /\ UNCHANGED TaskRest

\* an await_suspend that returns without resuming the coroutine
basic_await_suspend_returning ==
    /\ pc = "await_suspend" /\ abort = "none"
    /\ println(running, "-- inside suspend, resuming immediately")
    /\ running' = 0
    /\ pc' = "idle"
    /\ UNCHANGED <<coro, resumer, abort, ub, objs, ret, destroys>>
    /\ UNCHANGED TaskRest

\* 0x_cpp_coro_basic_await: Co_CurlAsync::await_suspend(coro): println;
\* coro.resume(), which runs the body on inside this call
basic_await_suspend ==
    /\ pc = "await_suspend" /\ abort = "none"
    /\ println(running, "-- inside suspend, resuming immediately")
    /\ IF Resumable(running)
       THEN /\ coro' = [coro EXCEPT ![running].st = "running"]
            /\ resumer' = "await_suspend"
            /\ pc' = "await_resume"
            /\ UNCHANGED <<abort, ub>>
       ELSE /\ ub' = IF ub = "none"
                     THEN "await_suspend: resume of a coroutine not suspended"
                     ELSE ub
            /\ \/ abort' = "crash" /\ pc' = pc /\ UNCHANGED <<coro, resumer>>
               \/ /\ abort' = abort /\ pc' = "await_suspend_return"
                  /\ UNCHANGED <<coro, resumer>>
               \/ /\ abort' = abort /\ pc' = "await_resume"
                  /\ coro' = [coro EXCEPT ![running].st = "running"]
                  /\ resumer' = "await_suspend"
    /\ UNCHANGED <<running, objs, ret, destroys>>
    /\ UNCHANGED TaskRest

\* 0x_cpp_coro_basic_await: Co_CurlAsync::await_resume(): println
basic_await_resume ==
    /\ pc = "await_resume" /\ abort = "none"
    /\ println(running, "-- resume")
    /\ pc' = "work_after"
    /\ UNCHANGED <<coro, running, resumer, abort, ub, objs, ret, destroys>>
    /\ UNCHANGED TaskRest

\* coro_work() after the co_await: println; co_return; final_suspend.
\* Control goes back into await_suspend, to the point after coro.resume().
coro_work_after ==
    /\ pc = "work_after" /\ abort = "none"
    /\ println(running, "after co_await")
    /\ coro' = [coro EXCEPT ![running].st = "done", ![running].at = "final",
                            ![running].ran = @ + 1]
    /\ pc' = "await_suspend_return"
    /\ UNCHANGED <<running, resumer, abort, ub, objs, ret, destroys>>
    /\ UNCHANGED TaskRest

\* await_suspend returns, and with it the resume() that main() called
basic_await_suspend_return ==
    /\ pc = "await_suspend_return" /\ abort = "none"
    /\ running' = 0
    /\ resumer' = "main"
    /\ pc' = "idle"
    /\ UNCHANGED <<coro, out, abort, ub, objs, ret, destroys>>
    /\ UNCHANGED TaskRest

\* the program of 02_libcurl_callbacks_multi: the scheduler and the callback API
Next ==
    \/ \E url \in Urls : main_async_get(url)
    \/ \E h \in {NULL} \cup easy, f \in {EmptyFunction,
            on_finish_lambda(NULL, NoUser, "main_lambda", 0)} :
                add_request_call(h, f)
    \/ tick_perform
    \/ tick_info_read
    \/ tick_remove_handle
    \/ tick_erase
    \/ on_finish
    \/ main_lambda
    \/ CURL_async_destroy

Spec == Init /\ [][Next]_vars

\* the program of 0x_cpp_coro_await_curl_crash: tasks, awaiters and callbacks
NextCoro ==
    \/ \E url \in Urls : main_async_get(url)
    \/ tick_perform
    \/ tick_info_read
    \/ tick_remove_handle
    \/ tick_erase
    \/ on_finish
    \/ main_lambda
    \/ \E t \in Tasks, n \in 0..MaxAwaits : coro_main_call(t, n)
    \/ \E t \in Tasks : Co_Task_resume(t)
    \/ \E t \in Tasks : Co_Task_destroy(t)
    \/ coro_body
    \/ await_lambda
    \/ CURL_async_destroy

SpecCoro == Init /\ [][NextCoro]_vars

\* the programs of 0x_cpp_coro_task and 0x_cpp_coro_basic_await, with the
\* Co_Task objects moved and destroyed as their owner likes
NextTask ==
    \/ \E o \in Objs, t \in Tasks, n \in {0, 1} : coro_work_call(o, t, n)
    \/ \E o \in Objs, rhs \in Objs : Co_Task_move_call(o, rhs)
    \/ \E o \in Objs : Co_Task_dtor(o)
    \/ \E o \in Objs : Co_Task_resume_call(o)
    \/ \E o \in Objs : Co_Task_is_in_progress_call(o)
    \/ coro_work_before
    \/ basic_await_suspend
    \/ basic_await_resume
    \/ coro_work_after
    \/ basic_await_suspend_return

SpecTask == Init /\ [][NextTask]_vars

\* ================================================================== claims
Registered == DOMAIN _curl_to_callback
Requests == DOMAIN hist
AwaitForm(r) == hist[r].user_data.kind = "Co_CurlAsync"
CallbackForm(r) == hist[r].user_data.kind = "State"

\* ------------------------------------------------------- the driver loops
\* main(): while (!state.done) / while (task.is_in_progress()): the loop
\* goes on while a callback has not fired or a task is in progress
LoopCondition ==
    \/ \E r \in Requests :
            CallbackForm(r) /\ ~user[hist[r].user_data.id].done
    \/ \E t \in Tasks : coro[t].st # "none" /\ is_in_progress(t)

\* main(): task.resume() right after Co_Task task = coro_main(curl_async)
main_resume(t) ==
    /\ coro[t].at = "initial"
    /\ Co_Task_resume(t)

\* main(): CURL_async_tick(curl_async) in the loop
main_tick ==
    /\ LoopCondition
    /\ \A t \in Tasks : coro[t].at # "initial"
    /\ tick_perform

\* main(): CURL_async_destroy(curl_async) after the loop
main_destroy ==
    /\ ~LoopCondition
    /\ hist # <<>> \/ \E t \in Tasks : coro[t].st # "none"
    /\ CURL_async_destroy

\* main(): the closing brace, where task is destructed, after
\* CURL_async_destroy(curl_async)
main_task_dtor(t) ==
    /\ sched = "destroyed"
    /\ Co_Task_destroy(t)

\* the programs of main() in 02_libcurl_callbacks_multi and in
\* 0x_cpp_coro_await_curl_crash, run to their end
NextLive ==
    \/ \E url \in Urls : main_async_get(url)
    \/ \E t \in Tasks, n \in 0..MaxAwaits : coro_main_call(t, n)
    \/ \E t \in Tasks : main_resume(t)
    \/ main_tick
    \/ tick_info_read
    \/ tick_remove_handle
    \/ tick_erase
    \/ on_finish
    \/ main_lambda
    \/ coro_body
    \/ await_lambda
    \/ main_destroy
    \/ \E t \in Tasks : main_task_dtor(t)

\* The code runs on: every step inside a call is taken, main() resumes a
\* task it created and keeps calling tick() while its loop condition holds.
\* The engine: every attached transfer is eventually reported finished.
Fairness ==
    /\ WF_vars(tick_info_read)
    /\ WF_vars(tick_remove_handle)
    /\ WF_vars(tick_erase)
    /\ WF_vars(on_finish)
    /\ WF_vars(main_lambda)
    /\ WF_vars(coro_body)
    /\ WF_vars(await_lambda)
    /\ \A t \in Tasks : WF_vars(main_resume(t))
    /\ \A h \in Handles : SF_vars(main_tick /\ h \in msgs')

SpecLive == Init /\ [][NextLive]_vars /\ Fairness

\* C1: driving tick() until the handle->callback map is empty delivers
\* exactly one completion per transfer registered through CURL_async_get:
\* each transfer's own callback is invoked at most once at any time, with the
\* handle of that transfer and with its own user_data, and once the map is
\* empty every one of the N transfers has had its callback, so N in total.
C1_EachTransferCompletesOnce ==
    /\ \A r \in Requests :
        /\ Len(hist[r].invoked) <= 1
        /\ Len(hist[r].completions) <= Len(hist[r].invoked)
        /\ \A i \in DOMAIN hist[r].invoked :
                hist[r].invoked[i] = hist[r].handle
        /\ \A i \in DOMAIN hist[r].completions :
                hist[r].completions[i].user_data = hist[r].user_data
    /\ (Idle /\ Registered = {}) =>
            \A r \in Requests :
                /\ Len(hist[r].completions) = 1
                /\ user[hist[r].user_data.id].done
C1_Witness ==
    /\ Idle /\ Registered = {}
    /\ Len(hist) = MaxRequests
    /\ \E r1, r2 \in Requests : hist[r1].handle # hist[r2].handle
    /\ \A r \in Requests : Len(hist[r].completions) = 1

\* C2: whenever neither tick() nor add_request() is running (the driver is
\* between calls) and whenever a completion callback is entered, a handle is
\* attached to the multi handle iff it is a key of _curl_to_callback.
C2_AttachedIffRegistered ==
    pc \in {"idle", "callback"} => _multi_curl = Registered
C2_Witness ==
    pc = "callback" /\ _multi_curl # {} /\ abort = "none"

\* C3: for a transfer reported finished, tick() detaches the handle, then
\* erases its map entry, then invokes its callback, all before it returns:
\* once detached and not yet erased the callback has not run; when the
\* callback is entered the handle is neither attached nor registered; and
\* when tick() has returned no finished transfer is left undelivered and no
\* delivered transfer is registered.
C3_DetachEraseInvoke ==
    /\ (pc = "find" /\ abort = "none") =>
            /\ curl_easy \notin _multi_curl
            /\ curl_easy \in Registered
            /\ hist[xfer[curl_easy].req].invoked = <<>>
    /\ (pc = "callback" /\ abort = "none") =>
            /\ curl_easy \notin _multi_curl
            /\ curl_easy \notin Registered
            /\ hist[callback.req].invoked = <<>>
    /\ pc = "on_complete" =>
            /\ curl_easy \notin _multi_curl
            /\ curl_easy \notin Registered
            /\ hist[callback.req].invoked = <<curl_easy>>
    /\ pc = "idle" =>
            /\ msgs = {}
            /\ \A h \in Handles : xfer[h].phase # "done"
            /\ \A h \in Registered :
                    hist[_curl_to_callback[h].req].invoked = <<>>
C3_Witness ==
    pc = "on_complete" /\ data # <<>> /\ _multi_curl # {}

\* C4: destroying a scheduler while a transfer is still in the map is
\* rejected: a scheduler is never destroyed with a registered transfer whose
\* callback was not invoked.
C4_DestroyWithPendingRejected ==
    sched = "destroyed" => \A r \in Requests : hist[r].invoked # <<>>

\* C5: add_request called with a handle that is already a key of the map, or
\* with an empty callback, or with a null handle, halts on an assertion and
\* leaves the multi handle and the map as they were.
AddRequestAsserts ==
    {"add_request: assert(on_finish)", "add_request: assert(curl_easy)",
     "add_request: assert(!_curl_to_callback.contains(curl_easy))"}
C5_AddRequestRejects ==
    [][(/\ call' # call
        /\ \/ call'.curl_easy \in Registered
           \/ call'.on_finish.empty
           \/ call'.curl_easy = NULL)
       => /\ abort' \in AddRequestAsserts
          /\ _multi_curl' = _multi_curl
          /\ _curl_to_callback' = _curl_to_callback]_vars
C5_Witness ==
    /\ call.op = "add_request"
    /\ call.curl_easy \in Registered
    /\ ~call.on_finish.empty
    /\ abort = "add_request: assert(!_curl_to_callback.contains(curl_easy))"

\* C6: a created task has run no statement of its body and started no
\* transfer while it stands at its initial suspension; is_in_progress() is
\* true exactly as long as the body has not run to its end, and once false
\* it stays false.
StartedBy(t) == {r \in Requests : AwaitForm(r) /\ hist[r].user_data.id = t}
C6_InProgressUntilEnd ==
    /\ [](ub = "none" =>
            \A t \in Tasks : coro[t].st # "none" =>
                /\ coro[t].at = "initial" =>
                        coro[t].ran = 0 /\ StartedBy(t) = {}
                /\ is_in_progress(t) <=> coro[t].ran <= coro[t].n)
    /\ [][ub' = "none" =>
            \A t \in Tasks :
                (coro[t].st # "none" /\ ~is_in_progress(t))
                    => ~is_in_progress(t)']_vars
C6_Witness ==
    \E t \in Tasks :
        /\ coro[t].st = "done" /\ coro[t].n = MaxAwaits
        /\ ub = "none" /\ ~coro[t].forced /\ ~Freed(t)

C8_ResponseIsConcatenation ==
    /\ \A r \in Requests :
        /\ hist[r].consumed
        /\ \A i \in DOMAIN hist[r].completions :
                hist[r].completions[i].response = Flatten(hist[r].chunks)
    /\ \A h \in easy :
        /\ state[h].alive
        /\ state[h].str = Flatten(hist[xfer[h].req].chunks)
C8_Witness ==
    \E r1, r2 \in Requests :
        /\ r1 # r2
        /\ Len(hist[r1].chunks) >= 2 /\ hist[r2].chunks # <<>>
        /\ hist[r1].completions # <<>> /\ hist[r2].completions # <<>>

\* C9 as claimed: with the same url and the same chunks delivered by the
\* engine with success, the value a co_await CURL_await_get yields in a task
\* equals the bytes a directly registered CURL_async_get delivers to its
\* callback (stated for tasks that are not destroyed while they wait).
AwaitYieldsCallbackBytes ==
    \A r1, r2 \in Requests :
        (/\ AwaitForm(r1) /\ CallbackForm(r2)
         /\ hist[r1].yielded # <<>> /\ hist[r1].finished
         /\ hist[r2].completions # <<>>
         /\ hist[r1].url = hist[r2].url
         /\ hist[r1].chunks = hist[r2].chunks)
        => hist[r1].yielded[1] = hist[r2].completions[1].response
C9_AsClaimed ==
    (\A t \in Tasks : coro[t].destroyed_at # "await")
        => AwaitYieldsCallbackBytes
\* C9 as amended: the same, provided the task is not destroyed while it is
\* suspended in the co_await and its owner does not call resume() on it
\* while it is suspended there: then the value the co_await yields is the
\* data of the one completion of its transfer, and equals the bytes the
\* callback form delivers for the same url and chunks.
C9_AwaitYieldsCallbackBytes ==
    ((\A t \in Tasks : coro[t].destroyed_at # "await")
        /\ (\A t \in Tasks : ~coro[t].forced))
    => /\ AwaitYieldsCallbackBytes
       /\ \A r \in Requests :
            (AwaitForm(r) /\ hist[r].yielded # <<>>)
                => /\ hist[r].finished
                   /\ hist[r].yielded[1] = Flatten(hist[r].chunks)
C9_Witness ==
    /\ \A t \in Tasks : coro[t].destroyed_at # "await" /\ ~coro[t].forced
    /\ \E r1, r2 \in Requests :
        /\ AwaitForm(r1) /\ CallbackForm(r2)
        /\ hist[r1].yielded # <<>> /\ hist[r1].yielded[1] # <<>>
        /\ hist[r1].finished
        /\ hist[r2].completions # <<>>
        /\ hist[r1].url = hist[r2].url
        /\ hist[r1].chunks = hist[r2].chunks

\* C10: the completion of an awaiter resumes its task once, inside tick(),
\* while the task is suspended at that co_await, never while it runs and
\* never after it is done: no completion acts on a task that is not waiting
\* in that awaiter, every await-form transfer completes at most once, and a
\* body that tick() resumed was waiting in the awaiter whose completion is
\* being delivered.
C10_CompletionResumesWaitingTask ==
    /\ ub = "none"
    /\ \A r \in Requests : AwaitForm(r) =>
            /\ Len(hist[r].completions) <= 1
            /\ Len(hist[r].yielded) <= 1
    /\ (pc = "body" /\ resumer = "tick") =>
            /\ coro[running].at = "await"
            /\ callback.user_data =
                    [kind |-> "Co_CurlAsync", id |-> running,
                     seq |-> coro[running].k]
            /\ curl_easy # NULL
NotDestroyedWhileSuspended ==
    \A t \in Tasks : coro[t].destroyed_at # "await"
OwnerResumesOnlyAtStart ==
    \A t \in Tasks : ~coro[t].forced
\* C10 as claimed: provided no task is destroyed while suspended
C10_AsClaimed ==
    NotDestroyedWhileSuspended => C10_CompletionResumesWaitingTask
\* C10 as amended: provided no task is destroyed while suspended in a
\* co_await and the owner calls resume() on no task that is suspended in a
\* co_await, the completion of an awaiter resumes its task once, inside
\* tick(), while the task is suspended at that co_await, and a body that
\* has gone past a co_await was resumed by that one completion.
C10_ProvidedOwnerDoesNotResume ==
    (NotDestroyedWhileSuspended /\ OwnerResumesOnlyAtStart)
        => /\ C10_CompletionResumesWaitingTask
           /\ \A r \in Requests :
                (AwaitForm(r) /\ hist[r].yielded # <<>>)
                    => Len(hist[r].completions) = 1
C10_Witness ==
    /\ pc = "body" /\ resumer = "tick" /\ ub = "none"
    /\ coro[running].k = MaxAwaits
    /\ NotDestroyedWhileSuspended /\ OwnerResumesOnlyAtStart

\* C11: destroying a task that is suspended in a co_await whose transfer is
\* still registered does not withdraw the registration; when a later
\* tick() delivers that transfer's completion, the completion lambda is
\* called and acts on the destroyed awaiter and the destroyed coroutine
\* (a dangling access).
DestroyedInAwait(ud) ==
    /\ ud.kind = "Co_CurlAsync"
    /\ coro[ud.id].destroyed_at = "await"
    /\ coro[ud.id].k = ud.seq
C11_DestroyLeavesDanglingCompletion ==
    /\ [][\A t \in Tasks : (~Freed(t) /\ Freed(t)') =>
            /\ _curl_to_callback' = _curl_to_callback
            /\ _multi_curl' = _multi_curl
            /\ msgs' = msgs /\ xfer' = xfer]_vars
    /\ [][(/\ pc = "on_complete" /\ abort = "none" /\ ub = "none"
           /\ callback.callback = "await_lambda"
           /\ DestroyedInAwait(callback.user_data)
           /\ hist' # hist)
          => /\ ub' = "await_lambda: use of a destroyed Co_CurlAsync"
             /\ Len(hist'[callback.req].completions) = 1]_vars
C11_Witness ==
    /\ ub = "await_lambda: use of a destroyed Co_CurlAsync"
    /\ Len(hist) = 1 /\ Len(hist[1].completions) = 1
    /\ \E t \in Tasks :
        /\ coro[t].destroyed_at = "await" /\ ~coro[t].forced
        /\ coro[t].ran = 1 /\ hist[1].user_data.id = t
        /\ hist[1].user_data.kind = "Co_CurlAsync"

\* C12: when a finished transfer's response code is not 200, its completion
\* lambda halts on its assertion: the user's callback is not called for that
\* transfer, no part of the body is delivered, the transfer is not
\* registered again, and nothing runs after the halt.
C12_NonSuccessIsFatal ==
    /\ [](abort = "on_finish: assert(response_code == 200L)" =>
            /\ pc = "callback"
            /\ xfer[curl_easy].code # HTTP_OK
            /\ hist[callback.req].completions = <<>>
            /\ callback.user_data.kind = "State" =>
                    /\ ~user[callback.user_data.id].done
                    /\ user[callback.user_data.id].response = <<>>
            /\ curl_easy \notin Registered
            /\ curl_easy \notin _multi_curl)
    /\ [][(pc = "callback" /\ abort = "none"
             /\ xfer[curl_easy].code # HTTP_OK)
          => /\ abort' = "on_finish: assert(response_code == 200L)"
             /\ hist'[callback.req].completions = <<>>
             /\ Len(hist') = Len(hist)
             /\ user' = user
             /\ _curl_to_callback' = _curl_to_callback
             /\ _multi_curl' = _multi_curl]_vars
    /\ [][abort = "none"]_vars
C12_Witness ==
    /\ abort = "on_finish: assert(response_code == 200L)"
    /\ hist[callback.req].chunks # <<>>
    /\ \E r \in Requests : r # callback.req /\ hist[r].completions # <<>>

\* C13: in every run where the engine eventually reports every attached
\* transfer finished (Fairness) and reports it with success
\* (EngineSucceeds), the driver loop ends: every callback-form request
\* eventually sets done, every created task eventually is Done, and when
\* the loop has ended (the scheduler is destroyed after it) the
\* handle->callback map is empty.
EngineSucceeds ==
    \A h \in Handles : xfer[h].phase = "done" => xfer[h].code = HTTP_OK
C13_DriverLoopTerminates ==
    /\ []EngineSucceeds =>
        /\ \A r \in 1..MaxRequests :
                (r \in Requests /\ CallbackForm(r))
                    ~> (r \in Requests /\ user[hist[r].user_data.id].done)
        /\ \A t \in Tasks : (coro[t].st # "none") ~> _coro_done(t)
    /\ [](Idle /\ ~LoopCondition => Registered = {} /\ _multi_curl = {})
    /\ [][sched' = "destroyed" => Registered = {} /\ ~LoopCondition]_vars
C13_Witness ==
    /\ sched = "destroyed"
    /\ \E t \in Tasks : _coro_done(t) /\ coro[t].n = MaxAwaits
    /\ \A r \in Requests : hist[r].completions # <<>>
    /\ Len(hist) = MaxRequests

\* C14: every transfer the engine reported finished in the advance step of a
\* tick() has had its callback invoked when that tick() returns; inside the
\* tick() a finished transfer not yet delivered is still queued or is the
\* one being delivered, however many finished together.
C14_AllReadyCompletionsFire ==
    /\ pc = "idle" =>
            \A r \in Requests :
                hist[r].finished => Len(hist[r].invoked) = 1
    /\ (pc # "idle" /\ abort = "none") =>
            \A r \in Requests :
                (hist[r].finished /\ hist[r].invoked = <<>>) =>
                    \/ hist[r].handle \in msgs
                    \/ /\ hist[r].handle = curl_easy
                       /\ pc \in {"msg", "find", "callback"}
C14_Witness ==
    /\ pc = "on_complete" /\ msgs # {}
    /\ \E r1, r2 \in Requests :
        /\ r1 # r2 /\ hist[r1].finished /\ hist[r2].finished
        /\ hist[r1].invoked # <<>> /\ hist[r2].invoked = <<>>

\* C15: a co_await CURL_await_get always suspends the task and, at that
\* suspension, registers exactly one new transfer with the scheduler; a
\* task suspended in a co_await is in progress with exactly one of its
\* transfers pending; and the value a co_await yields is the response the
\* completion has stored before.
PendingOf(t) == {r \in StartedBy(t) : hist[r].completions = <<>>}
C15_AwaitSuspendsAndRegisters ==
    [][(pc = "body" /\ abort = "none"
          /\ coro[running].k < coro[running].n)
       => /\ coro'[running].st = "suspended"
          /\ coro'[running].at = "await"
          /\ Len(hist') = Len(hist) + 1
          /\ hist'[Len(hist')].user_data.kind = "Co_CurlAsync"
          /\ hist'[Len(hist')].user_data.id = running
          /\ hist'[Len(hist')].handle \notin Registered
          /\ Registered' = Registered \cup {hist'[Len(hist')].handle}
          /\ _multi_curl' = _multi_curl \cup {hist'[Len(hist')].handle}
          /\ pc' \in {"idle", "loop"}]_vars
C15_OnePendingWhileSuspended ==
    \A t \in Tasks :
        (coro[t].st = "suspended" /\ coro[t].at = "await"
            /\ ~coro[t].forced /\ ~Freed(t) /\ ub = "none")
        => /\ is_in_progress(t)
           /\ Cardinality(PendingOf(t)) = 1
C15_ReadAfterWrite ==
    \A r \in Requests :
        (AwaitForm(r) /\ hist[r].yielded # <<>>)
        => /\ hist[r].completions # <<>>
           /\ hist[r].yielded[1] = hist[r].completions[1].response
\* C15 as claimed, with no proviso on what the owner of the task does
C15_AsClaimed ==
    /\ C15_AwaitSuspendsAndRegisters
    /\ []C15_OnePendingWhileSuspended
    /\ [](ub = "none" => C15_ReadAfterWrite)
\* C15 as amended: the same, the read-after-write part provided that the
\* owner calls resume() on no task that is suspended in a co_await (and no
\* undefined behaviour has occurred): then the value each co_await yields is
\* the response its completion stored before.
C15_ProvidedOwnerDoesNotResume ==
    /\ C15_AwaitSuspendsAndRegisters
    /\ []C15_OnePendingWhileSuspended
    /\ []((ub = "none" /\ OwnerResumesOnlyAtStart) => C15_ReadAfterWrite)
C15_Witness ==
    /\ ub = "none" /\ OwnerResumesOnlyAtStart /\ pc = "idle"
    /\ \E t \in Tasks :
        /\ coro[t].st = "suspended" /\ coro[t].at = "await"
        /\ coro[t].k = 2 /\ Cardinality(StartedBy(t)) = 2
        /\ \E r \in StartedBy(t) :
                hist[r].yielded # <<>> /\ hist[r].yielded[1] # <<>>

\* C16: when a task resumed by a completion inside tick() reaches its next
\* co_await and registers a new transfer on the same scheduler, the entry of
\* the finished transfer is already gone, no assertion of add_request fires,
\* the new handle (which may have the address of the finished one) is
\* attached and is in the map once, with the rest of the map and the
\* message queue as they were; and every transfer registered by a task has
\* its callback delivered at most once, exactly once when the task is Done.
C16_RegisterInsideCallback ==
    /\ [][(/\ pc = "body" /\ resumer = "tick"
           /\ abort = "none" /\ ub = "none"
           /\ coro[running].k < coro[running].n)
          => /\ curl_easy \notin Registered
             /\ curl_easy \notin _multi_curl
             /\ abort' = "none"
             /\ LET r == Len(hist')
                    h == hist'[r].handle
                IN  /\ r = Len(hist) + 1
                    /\ h \notin Registered
                    /\ Registered' = Registered \cup {h}
                    /\ _multi_curl' = _multi_curl \cup {h}
                    /\ _curl_to_callback'[h].req = r
                    /\ \A g \in Registered :
                            _curl_to_callback'[g] = _curl_to_callback[g]
             /\ msgs' = msgs]_vars
    /\ [](ub = "none" =>
            \A r \in Requests : AwaitForm(r) =>
                /\ Len(hist[r].invoked) <= 1
                /\ Len(hist[r].completions) <= 1
                /\ \A i \in DOMAIN hist[r].invoked :
                        hist[r].invoked[i] = hist[r].handle)
    /\ [](ub = "none" =>
            \A t \in Tasks :
                (_coro_done(t) /\ ~coro[t].forced) =>
                    \A r \in StartedBy(t) : Len(hist[r].completions) = 1)
C16_Witness ==
    /\ ub = "none" /\ abort = "none" /\ OwnerResumesOnlyAtStart
    /\ \E r \in Requests :
        /\ r > 1 /\ AwaitForm(r) /\ AwaitForm(r - 1)
        /\ hist[r].handle = hist[r - 1].handle
        /\ Len(hist[r].completions) = 1
        /\ _coro_done(hist[r].user_data.id)

\* C17: an entry leaves the handle->callback map, and its handle the multi
\* handle, only in a tick() in which the engine reported that transfer
\* finished, and a completion lambda is invoked only there; no other step
\* removes, replaces or invokes an entry.  A tick() whose advance step
\* reports no finished transfer changes neither the map nor the attached
\* handles and invokes nothing.
EntriesLeaveInFinishingTick ==
    /\ \A h \in Registered :
        (h \notin Registered'
            \/ _curl_to_callback'[h] # _curl_to_callback[h])
        => /\ pc = "find" /\ pc' = "callback"
           /\ curl_easy = h
           /\ hist[_curl_to_callback[h].req].finished
           /\ callback' = _curl_to_callback[h]
    /\ \A h \in _multi_curl :
        h \notin _multi_curl'
        => /\ pc = "msg" /\ curl_easy = h
           /\ hist[_curl_to_callback[h].req].finished
    /\ \A r \in Requests :
        hist'[r].invoked # hist[r].invoked
        => /\ pc = "callback" /\ callback.req = r
           /\ hist[r].finished
           /\ hist[r].handle = curl_easy
C17_EntriesLeaveOnlyWhenFinished ==
    /\ [][EntriesLeaveInFinishingTick]_vars
    /\ [][(pc = "idle" /\ pc' = "loop") =>
            /\ _curl_to_callback' = _curl_to_callback
            /\ _multi_curl' = _multi_curl
            /\ \A r \in Requests : hist'[r].invoked = hist[r].invoked]_vars
    /\ [][(pc = "loop" /\ msgs = {}) =>
            /\ pc' = "idle"
            /\ _curl_to_callback' = _curl_to_callback
            /\ _multi_curl' = _multi_curl
            /\ hist' = hist]_vars
\* what does hold: the same for every step that is not CURL_async_destroy
EntriesLeaveWhileSchedulerExists ==
    [][sched' = "alive" => EntriesLeaveInFinishingTick]_vars

\* C18: on the success path of a completion lambda the easy handle has been
\* cleaned up and the response buffer moved out and deleted when the user's
\* callback is entered; the user's callback is called exactly once per
\* transfer, from that lambda; and neither the write callback nor the
\* lambda touches a buffer that has been deleted: every attached handle
\* writes to its own live buffer and the lambda reads a live buffer.
C18_ReleaseBeforeOnComplete ==
    /\ [](pc = "on_complete" =>
            /\ ~xfer[curl_easy].live
            /\ ~state[callback.state].alive
            /\ data = Flatten(hist[callback.req].chunks)
            /\ hist[callback.req].completions = <<>>)
    /\ [](\A h \in _multi_curl :
            /\ xfer[h].live
            /\ state[xfer[h].writedata].alive
            /\ _curl_to_callback[h].state = xfer[h].writedata)
    /\ []((pc = "callback" /\ abort = "none") =>
            /\ xfer[curl_easy].live
            /\ xfer[curl_easy].writedata = callback.state
            /\ state[callback.state].alive)
    /\ [][\A r \in Requests :
            hist'[r].completions # hist[r].completions
            => /\ pc = "on_complete" /\ callback.req = r
               /\ hist[r].invoked = <<curl_easy>>
               /\ hist[r].completions = <<>>
               /\ Len(hist'[r].completions) = 1
               /\ hist'[r].completions[1].response = data]_vars
    /\ [](pc = "idle" =>
            \A r \in Requests :
                hist[r].invoked # <<>> => Len(hist[r].completions) = 1)
C18_Witness ==
    /\ Idle
    /\ \E r1, r2 \in Requests :
        /\ r1 < r2 /\ hist[r1].handle = hist[r2].handle
        /\ Len(hist[r1].completions) = 1 /\ hist[r1].chunks # <<>>
        /\ Len(hist[r2].completions) = 1 /\ hist[r2].chunks # <<>>

\* C19: with the awaiter of 0x_cpp_coro_basic_await, whose await_suspend
\* resumes the coroutine before it returns, one resume() by the owner takes
\* the task from its initial suspension to Done: the statement before the
\* co_await, await_suspend, await_resume and the statement after the
\* co_await run once each and in that order, and all of them have run when
\* resume() returns.
BasicLines ==
    <<"before co_await", "-- inside suspend, resuming immediately",
      "-- resume", "after co_await">>
C19_ImmediateResumeRunsToDone ==
    /\ ub = "none"
    /\ \A t \in Tasks :
        (coro[t].st # "none" /\ coro[t].n = 1) =>
            LET tr == LinesOf(t) IN
            /\ Len(tr) <= Len(BasicLines)
            /\ tr = SubSeq(BasicLines, 1, Len(tr))
            /\ pc = "idle" =>
                    \/ tr = <<>> /\ coro[t].at = "initial"
                    \/ tr = BasicLines /\ _coro_done(t) /\ coro[t].ran = 2
            /\ (running = t /\ pc = "work") => tr = <<>>
            /\ (running = t /\ pc = "await_suspend") => Len(tr) = 1
            /\ (running = t /\ pc = "await_resume") => Len(tr) = 2
            /\ (running = t /\ pc = "work_after") => Len(tr) = 3
            /\ (running = t /\ pc = "await_suspend_return") =>
                    tr = BasicLines /\ _coro_done(t)
C19_Witness ==
    /\ pc = "idle" /\ abort = "none"
    /\ \E t \in Tasks :
        /\ coro[t].n = 1 /\ _coro_done(t) /\ ~Freed(t)
        /\ LinesOf(t) = BasicLines

\* C20: through creation, move construction and destruction of Co_Task
\* objects every coroutine that exists is held by exactly one live Co_Task
\* and is destroyed exactly once, when that Co_Task is destructed; a
\* moved-from Co_Task holds a null handle and its destructor destroys
\* nothing; resume() and is_in_progress() on a moved-from Co_Task halt on
\* assert(_coro) and never use the null handle.
NullAsserts ==
    {"Co_Task::resume: assert(_coro)",
     "Co_Task::is_in_progress: assert(_coro)"}
C20_ExclusiveOwnership ==
    /\ [](ub = "none")
    /\ [](\A t \in Tasks : coro[t].st # "none" =>
            IF Freed(t)
            THEN Owners(t) = {} /\ destroys[t] = 1
            ELSE Cardinality(Owners(t)) = 1 /\ destroys[t] = 0)
    /\ [][\A o \in Objs :
            (objs[o].st = "alive" /\ objs'[o].st = "dead"
                /\ objs[o]._coro = NULL)
            => coro' = coro /\ destroys' = destroys]_vars
    /\ [][\A o \in Objs :
            (objs[o].st = "none" /\ objs'[o].st = "alive" /\ coro' = coro)
            => \E rhs \in Objs :
                /\ objs[rhs].st = "alive" /\ objs'[rhs].st = "alive"
                /\ objs'[o]._coro = objs[rhs]._coro
                /\ objs'[rhs]._coro = NULL]_vars
    /\ [][(abort = "none" /\ abort' \in NullAsserts)
            => /\ \E o \in Objs : objs[o].st = "alive" /\ objs[o]._coro = NULL
               /\ coro' = coro /\ out' = out /\ pc' = pc /\ ret' = ret]_vars
    /\ [][ret' # ret =>
            /\ objs[ret'.obj].st = "alive" /\ objs[ret'.obj]._coro # NULL
            /\ ret'.value = ~_coro_done(objs[ret'.obj]._coro)]_vars
C20_Witness ==
    /\ abort = "Co_Task::resume: assert(_coro)"
    /\ objs[1].st = "dead" /\ objs[1]._coro = NULL
    /\ objs[2].st = "alive" /\ objs[2]._coro = NULL
    /\ objs[3].st = "dead" /\ objs[3]._coro # NULL
    /\ destroys[objs[3]._coro] = 1
    /\ coro[objs[3]._coro].destroyed_at = "final"
====
